---- MODULE Spec2Model ----
(***************************************************************************)
(* Inventory / reservation subsystem of the blood-bank backend:            *)
(* routers/inventory_enhanced.py (move, validate, reserve, release,        *)
(* auto-release, expiry classifier), routers/requests.py (requests and     *)
(* issuances), and the handlers of routers/logistics_enhanced.py,          *)
(* routers/disposition.py and routers/quarantine.py that write the status  *)
(* of an issuance or of a component.                                       *)
(*                                                                         *)
(* The document store is modelled as one function per collection, keyed    *)
(* by the documents' system id.  Timestamps are integer hours; the ISO     *)
(* strings the code stores are all produced by datetime.isoformat() in     *)
(* UTC, whose lexicographic order ($lt on strings) is the order of the     *)
(* instants.  A field that is absent or null reads as None / NoTime        *)
(* (dict.get returns None for both, and $lt matches neither).              *)
(* Bookkeeping fields no handler reads back (updated_at, reserved_at,      *)
(* reservation_notes, record uuids) are left out.                          *)
(***************************************************************************)
EXTENDS Integers, Sequences, FiniteSets, TLC

\* ---------------------------------------------------------------- bounds
MaxLog == 2          \* custody records kept in one behaviour
MaxNow == 30         \* last clock value (hours)
MaxBatch == 2        \* longest item_ids list of a request
MaxDays == 60        \* |days_remaining| explored for the classifier
MaxIssuances == 1    \* issuances created in one behaviour
MaxShipments == 1    \* shipments created in one behaviour
MaxReturns == 1      \* return records created in one behaviour
MaxDiscards == 1     \* discard records created in one behaviour

\* ------------------------------------------------------ program constants
DefaultHoldHours == 24
CriticalDays == 3
WarningDays == 7
CautionDays == 14

\* ------------------------------------------------------------ vocabulary
None == "None"
NoTime == -1
NoTemp == -1000
Tick == 30

UnitIds == {"u1"}
ComponentIds == {"c1", "c2"}
StorageIds == {"s1", "s2"}
RequestIds == {"r1"}
QuarantineIds == {"q1"}
AbsentId == "zz"

\* the second lookup key of a document, field human_id of the model:
\* unit_id / component_id / location_code / request_id
HumanId(id) ==
    CASE id = "u1" -> "BU-1"
      [] id = "c1" -> "CP-1"
      [] id = "c2" -> "CP-2"
      [] id = "s1" -> "REF-A"
      [] id = "s2" -> "FRZ-B"
      [] id = "r1" -> "REQ-1"
      [] id = "i1" -> "ISS-1"
      [] id = "i2" -> "ISS-2"
      [] id = "sh1" -> "SHP-1"
      [] id = "sh2" -> "SHP-2"
      [] id = "rt1" -> "RET-1"
      [] id = "rt2" -> "RET-2"
      [] OTHER -> None

\* ids a client may send: system ids, human-readable ids, one unknown id
InputItemIds(item_type) ==
    IF item_type = "unit" THEN {"u1", AbsentId} ELSE {"c1", "CP-2", AbsentId}
InputStorageIds == {"s1", "FRZ-B", AbsentId}
InputRequestIds == {"r1", AbsentId}
ItemTypes == {"unit", "component"}

\* reserve requests differ in caller, requester, hold and linked request
ReserveInputs ==
    {[user |-> "admin1", reserved_for |-> "Hospital X",
      reserved_until |-> NoTime, request_id |-> None],
     [user |-> "tech1", reserved_for |-> "Hospital Y",
      reserved_until |-> 30, request_id |-> "r1"]}

Users == {"admin1", "tech1"}
Role(u) == IF u = "admin1" THEN "admin"
           ELSE IF u = "tech1" THEN "lab_tech" ELSE "registration"
\* callers of the quarantine router
Resolvers == {"tech1", "reg1"}

Batches(item_type) == UNION {[1..n -> InputItemIds(item_type)] : n \in 1..MaxBatch}

VARIABLES
    blood_units,        \* db.blood_units
    components,         \* db.components
    storage_locations,  \* db.storage_locations
    chain_custody,      \* db.chain_custody, in insertion order
    blood_requests,     \* db.blood_requests
    issuances,          \* db.issuances, in insertion order
    now,                \* datetime.now(timezone.utc), in hours
    response,           \* the request being answered and the handler's answer
    calls,              \* reserve and move handlers suspended at an await
    expiry,             \* an item of the by-expiry dashboard
    shipments,          \* db.shipments, in insertion order
    returns,            \* db.returns, in insertion order
    discards,           \* db.discards, in insertion order
    quarantine          \* db.quarantine

vars == <<blood_units, components, storage_locations, chain_custody,
          blood_requests, issuances, now, response, calls, expiry,
          shipments, returns, discards, quarantine>>

\* the collections of the fulfilment handlers (logistics, disposition,
\* quarantine)
flowVars == <<shipments, returns, discards, quarantine>>

\* what the handlers of the inventory and request routers leave alone
sideVars == <<calls, expiry, flowVars>>

Calls == {"A", "B"}

\* storage-type names are character sequences, so that Python's substring
\* test `ct in storage_type` is computed and not tabulated
N_refrigerator == <<"r", "e", "f", "r", "i", "g", "e", "r", "a", "t", "o", "r">>
N_blood_fridge == <<"b", "l", "o", "o", "d", "_", "f", "r", "i", "d", "g", "e">>
N_freezer == <<"f", "r", "e", "e", "z", "e", "r">>
N_plasma_freezer == <<"p", "l", "a", "s", "m", "a", "_", "f", "r", "e", "e", "z", "e", "r">>
N_platelet_agitator == <<"p", "l", "a", "t", "e", "l", "e", "t", "_", "a", "g", "i", "t", "a", "t", "o", "r">>
N_room_temp == <<"r", "o", "o", "m", "_", "t", "e", "m", "p">>
N_platelet_incubator == <<"p", "l", "a", "t", "e", "l", "e", "t", "_", "i", "n", "c", "u", "b", "a", "t", "o", "r">>
N_quarantine_area == <<"q", "u", "a", "r", "a", "n", "t", "i", "n", "e", "_", "a", "r", "e", "a">>

\* ------------------------------------------------------------- documents
NewItem(hid, ctype) ==
    [human_id |-> hid, component_type |-> ctype, status |-> "ready_to_use",
     storage_location_id |-> None, storage_location |-> None,
     reserved_for |-> None, reserved_until |-> NoTime,
     reserved_request_id |-> None, reserved_by |-> None]

NoRequest ==
    [op |-> "none", user |-> None, item_type |-> None, item_ids |-> <<>>,
     target |-> None, reserved_until |-> NoTime, request_id |-> None]

NoResponse ==
    [request |-> NoRequest, http |-> 0, status |-> None, done |-> <<>>,
     failed |-> <<>>, reserved_until |-> NoTime,
     units_released |-> 0, components_released |-> 0, total_released |-> 0,
     valid |-> FALSE, incompatible_items |-> <<>>, items |-> <<>>]

NoStorage ==
    [human_id |-> None, storage_type |-> <<>>, temp_min |-> NoTemp,
     temp_max |-> NoTemp, capacity |-> 0, current_occupancy |-> 0]

\* the store as one pass of a loop found it
NoSeen == [units |-> <<>>, comps |-> <<>>, locs |-> <<>>, log |-> <<>>]

NoCall ==
    [pc |-> "idle", request |-> NoRequest, reserved_until |-> NoTime, idx |-> 0,
     key |-> None, item |-> NewItem(None, None), done |-> <<>>, failed |-> <<>>,
     http |-> 0, dkey |-> None, destination |-> NoStorage, seen |-> NoSeen]

NoExpiry == [days_remaining |-> 0, expiry_category |-> None]

\* The store at start: one unit and two components without a recorded
\* storage id, the second component ready or still in quarantine; a
\* refrigerator that may already hold one item that is not modelled, and an
\* empty freezer that declares its temperature band; one quarantine record,
\* for the second component, open while the component is in quarantine and
\* resolved with disposition release once it is ready.
InitStore ==
    /\ blood_units = [u \in UnitIds |-> NewItem(HumanId(u), "whole_blood")]
    /\ \E st \in {"ready_to_use", "quarantine"} :
         components = [c \in ComponentIds |->
                         IF c = "c1" THEN NewItem(HumanId(c), "prc")
                         ELSE [NewItem(HumanId(c), "plasma") EXCEPT !.status = st]]
    /\ \E occ \in 0..1 : storage_locations =
         [s \in StorageIds |->
            IF s = "s1"
            THEN [human_id |-> HumanId(s), storage_type |-> N_refrigerator,
                  temp_min |-> NoTemp, temp_max |-> NoTemp,
                  capacity |-> 2, current_occupancy |-> occ]
            ELSE [human_id |-> HumanId(s), storage_type |-> N_freezer,
                  temp_min |-> -30, temp_max |-> -18,
                  capacity |-> 1, current_occupancy |-> 0]]
    /\ chain_custody = <<>>
    /\ blood_requests = [r \in RequestIds |->
                           [human_id |-> HumanId(r), status |-> "pending",
                            approved_by |-> None, approval_date |-> NoTime,
                            notes |-> None]]
    /\ issuances = <<>>
    /\ shipments = <<>>
    /\ returns = <<>>
    /\ discards = <<>>
    /\ quarantine = [q \in QuarantineIds |->
                       IF components["c2"].status = "quarantine"
                       THEN [unit_type |-> "component", unit_component_id |-> "c2",
                             retest_result |-> None, disposition |-> None,
                             resolved_by |-> None]
                       ELSE [unit_type |-> "component", unit_component_id |-> "c2",
                             retest_result |-> "non_reactive",
                             disposition |-> "release", resolved_by |-> "tech1"]]
    /\ now = 0
    /\ response = NoResponse
    /\ calls = [p \in Calls |-> NoCall]

Init == InitStore /\ expiry = NoExpiry

\* --------------------------------------------------------- store helpers
\* collection.find_one({"$or": [{"id": x}, {id_field: x}]}): the key of the
\* matching document, or None
FindOne(coll, x) ==
    IF \E k \in DOMAIN coll : k = x \/ coll[k].human_id = x
    THEN CHOOSE k \in DOMAIN coll : k = x \/ coll[k].human_id = x
    ELSE None

CollectionOf(item_type) == IF item_type = "unit" THEN blood_units ELSE components

\* slip: the overall status does not look at the list
BatchStatus_AlwaysSuccess(done) == "success"

\* "status": "success" if <list> else "failed"
BatchStatus(done) == IF done # <<>> THEN "success" ELSE "failed"

\* slip: the two ends of the record are exchanged
CustodyRecord_SwapsEnds(key, item_type, stage, from, to) ==
    [unit_id |-> key, item_type |-> item_type, stage |-> stage,
     from_location |-> to, to_location |-> from]

CustodyRecord(key, item_type, stage, from, to) ==
    [unit_id |-> key, item_type |-> item_type, stage |-> stage,
     from_location |-> from, to_location |-> to]

\* ------------------------------- temperature compatibility (lines 49-80)
HasRequirement(ctype) ==
    ctype \in {"prc", "whole_blood", "plasma", "ffp", "platelets", "cryoprecipitate"}

\* STORAGE_TEMP_REQUIREMENTS[ctype]
Requirement(ctype) ==
    CASE ctype \in {"prc", "whole_blood"} ->
           [min |-> 2, max |-> 6, compatible_types |-> <<N_refrigerator, N_blood_fridge>>]
      [] ctype \in {"plasma", "ffp", "cryoprecipitate"} ->
           [min |-> -30, max |-> -18, compatible_types |-> <<N_freezer, N_plasma_freezer>>]
      [] ctype = "platelets" ->
           [min |-> 20, max |-> 24, compatible_types |-> <<N_platelet_agitator, N_room_temp>>]

\* Python's `a in b` on strings
IsSubstring(a, b) ==
    \E i \in 0..(Len(b) - Len(a)) : SubSeq(b, i + 1, i + Len(a)) = a

is_temp_compatible(ctype, storage) ==
    IF ~HasRequirement(ctype) THEN TRUE
    ELSE LET req == Requirement(ctype) IN
         IF \E i \in 1..Len(req.compatible_types) :
                IsSubstring(req.compatible_types[i], storage.storage_type)
         THEN TRUE
         ELSE IF storage.temp_min # NoTemp /\ storage.temp_max # NoTemp
         THEN storage.temp_min <= req.max /\ storage.temp_max >= req.min
         ELSE TRUE

\* --------------------------------------------------- move (lines 437-531)
AvailableCapacity(destination) ==
    destination.capacity - destination.current_occupancy

\* slip: the occupancy is left out of the test
ExceedsCapacity_IgnoresOccupancy(item_ids, destination) ==
    Len(item_ids) > destination.capacity

\* slip: one item too many is let through
ExceedsCapacity_OffByOne(item_ids, destination) ==
    Len(item_ids) > AvailableCapacity(destination) + 1

\* the batch-level capacity test
ExceedsCapacity(item_ids, destination) ==
    Len(item_ids) > AvailableCapacity(destination)

\* component_type used for the compatibility test
MoveComponentType(item, item_type) ==
    IF item_type = "component" THEN item.component_type ELSE "whole_blood"

\* update_one({"id": sid}, {"$inc": {"current_occupancy": d}}): no document
\* matches an unknown or empty id
IncOccupancy(locs, sid, d) ==
    IF sid \in DOMAIN locs
    THEN [locs EXCEPT ![sid].current_occupancy = @ + d]
    ELSE locs

\* slip: the $inc of -1 on the old location is missing
MoveItem_KeepsSourceCount(st, item_id, item_type, dkey, destination) ==
    LET key == FindOne(st.coll, item_id) IN
    IF key = None
    THEN [st EXCEPT !.failed = Append(@, [id |-> item_id, reason |-> <<"Not found">>])]
    ELSE IF ~is_temp_compatible(MoveComponentType(st.coll[key], item_type), destination)
    THEN [st EXCEPT !.failed =
             Append(@, [id |-> item_id, reason |-> <<"Temperature incompatible">>])]
    ELSE LET item == st.coll[key]
         IN  [coll |-> [st.coll EXCEPT ![key].storage_location_id = dkey,
                                       ![key].storage_location = destination.human_id],
              locs |-> IncOccupancy(st.locs, dkey, 1),
              log |-> Append(st.log,
                        CustodyRecord(key, item_type, "Storage Transfer",
                                      item.storage_location, destination.human_id)),
              done |-> Append(st.done, item_id),
              failed |-> st.failed]

\* one pass of the for-loop body; st = [coll, locs, log, done, failed];
\* dkey / destination are the document read before the loop
MoveItem(st, item_id, item_type, dkey, destination) ==
    LET key == FindOne(st.coll, item_id) IN
    IF key = None
    THEN [st EXCEPT !.failed = Append(@, [id |-> item_id, reason |-> <<"Not found">>])]
    ELSE IF ~is_temp_compatible(MoveComponentType(st.coll[key], item_type), destination)
    THEN [st EXCEPT !.failed =
             Append(@, [id |-> item_id, reason |-> <<"Temperature incompatible">>])]
    ELSE LET item == st.coll[key]
             old_storage_id == item.storage_location_id
             locs1 == IncOccupancy(st.locs, dkey, 1)
             locs2 == IF old_storage_id # None
                      THEN IncOccupancy(locs1, old_storage_id, -1)
                      ELSE locs1
         IN  [coll |-> [st.coll EXCEPT ![key].storage_location_id = dkey,
                                       ![key].storage_location = destination.human_id],
              locs |-> locs2,
              log |-> Append(st.log,
                        CustodyRecord(key, item_type, "Storage Transfer",
                                      item.storage_location, destination.human_id)),
              done |-> Append(st.done, item_id),
              failed |-> st.failed]

RECURSIVE MoveLoop(_, _, _, _, _)
MoveLoop(st, ids, item_type, dkey, destination) ==
    IF ids = <<>> THEN st
    ELSE MoveLoop(MoveItem(st, Head(ids), item_type, dkey, destination),
                  Tail(ids), item_type, dkey, destination)

MoveItems(user, item_type, item_ids, destination_storage_id) ==
    LET req == [NoRequest EXCEPT !.op = "move", !.user = user,
                   !.item_type = item_type, !.item_ids = item_ids,
                   !.target = destination_storage_id]
        dkey == FindOne(storage_locations, destination_storage_id)
    IN  IF dkey = None
        THEN /\ response' = [NoResponse EXCEPT !.request = req, !.http = 404,
                                !.status = "Destination storage not found"]
             /\ UNCHANGED <<blood_units, components, storage_locations,
                            chain_custody, blood_requests, issuances, now>>
        ELSE IF ExceedsCapacity(item_ids, storage_locations[dkey])
        THEN /\ response' = [NoResponse EXCEPT !.request = req, !.http = 400,
                                !.status = "Insufficient capacity"]
             /\ UNCHANGED <<blood_units, components, storage_locations,
                            chain_custody, blood_requests, issuances, now>>
        ELSE LET st == MoveLoop([coll |-> CollectionOf(item_type),
                                 locs |-> storage_locations,
                                 log |-> chain_custody,
                                 done |-> <<>>, failed |-> <<>>],
                                item_ids, item_type, dkey, storage_locations[dkey])
             IN  /\ Len(st.log) <= MaxLog
                 /\ blood_units' = IF item_type = "unit" THEN st.coll ELSE blood_units
                 /\ components' = IF item_type = "unit" THEN components ELSE st.coll
                 /\ storage_locations' = st.locs
                 /\ chain_custody' = st.log
                 /\ response' = [NoResponse EXCEPT !.request = req, !.http = 200,
                                    !.status = BatchStatus(st.done),
                                    !.done = st.done, !.failed = st.failed]
                 /\ UNCHANGED <<blood_requests, issuances, now>>

\* --------------------------------------- validate (lines 534-587)
\* one piece of the comma-separated item_ids parameter: an id, or a piece
\* that is empty after strip()
Blank == ""

\* [i.strip() for i in item_ids.split(",") if i.strip()]
ParseIds(pieces) == SelectSeq(pieces, LAMBDA i : i # Blank)

\* query strings a client may send: the lists a move takes, and lists with
\* an empty piece
ValidateInputs(item_type) ==
    Batches(item_type) \cup {<<Blank, x>> : x \in InputItemIds(item_type)}

\* slip: >= in place of >
ValidateExceeds_NonStrict(ids, destination) ==
    Len(ids) >= destination.capacity - destination.current_occupancy

\* available = capacity - current_occupancy; len(ids) > available
ValidateExceeds(ids, destination) ==
    Len(ids) > destination.capacity - destination.current_occupancy

\* the loop that collects incompatible_items
RECURSIVE Incompatible(_, _, _, _)
Incompatible(coll, ids, item_type, destination) ==
    IF ids = <<>> THEN <<>>
    ELSE LET key == FindOne(coll, Head(ids))
             ct == IF item_type = "component" THEN coll[key].component_type
                   ELSE "whole_blood"
             rest == Incompatible(coll, Tail(ids), item_type, destination)
         IN  IF key # None /\ ~is_temp_compatible(ct, destination)
             THEN <<[id |-> Head(ids), type |-> ct]>> \o rest
             ELSE rest

ValidateMove(user, item_type, item_ids, destination_storage_id) ==
    LET req == [NoRequest EXCEPT !.op = "validate", !.user = user,
                   !.item_type = item_type, !.item_ids = item_ids,
                   !.target = destination_storage_id]
        ids == ParseIds(item_ids)
        dkey == FindOne(storage_locations, destination_storage_id)
        incompatible == Incompatible(CollectionOf(item_type), ids, item_type,
                                     storage_locations[dkey])
    IN  /\ response' =
              IF dkey = None
              THEN [NoResponse EXCEPT !.request = req, !.http = 200,
                       !.status = "Destination storage not found"]
              ELSE IF ValidateExceeds(ids, storage_locations[dkey])
              THEN [NoResponse EXCEPT !.request = req, !.http = 200,
                       !.status = "Insufficient capacity"]
              ELSE IF incompatible # <<>>
              THEN [NoResponse EXCEPT !.request = req, !.http = 200,
                       !.status = "Some items are temperature incompatible",
                       !.incompatible_items = incompatible]
              ELSE [NoResponse EXCEPT !.request = req, !.http = 200,
                       !.valid = TRUE]
        /\ UNCHANGED <<blood_units, components, storage_locations,
                       chain_custody, blood_requests, issuances, now>>

\* ------------------------------------------------ reserve (lines 792-864)
\* slip: the supplied value is ignored
EffectiveUntil_AlwaysDefault(supplied, t) == t + DefaultHoldHours

\* reserved_until = request.reserved_until, or now + 24h when omitted
EffectiveUntil(supplied, t) ==
    IF supplied = NoTime THEN t + DefaultHoldHours ELSE supplied

\* slip: a held item passes the test as well
CanReserve_AlsoReserved(item) == item.status \in {"ready_to_use", "reserved"}

\* the status test of the per-item loop
CanReserve(item) == item.status = "ready_to_use"

\* the $set of the per-item update_one
ReservedDoc(item, req, until) ==
    [item EXCEPT !.status = "reserved",
                 !.reserved_for = req.target,
                 !.reserved_until = until,
                 !.reserved_request_id = req.request_id,
                 !.reserved_by = req.user]

StatusReason(item) == <<"Cannot reserve - current status: ", item.status>>

\* slip: the new custody record is put in front of the log
ReserveItem_PrependsLog(st, item_id, req, until) ==
    LET key == FindOne(st.coll, item_id) IN
    IF key = None
    THEN [st EXCEPT !.failed = Append(@, [id |-> item_id, reason |-> <<"Not found">>])]
    ELSE IF ~CanReserve(st.coll[key])
    THEN [st EXCEPT !.failed =
             Append(@, [id |-> item_id, reason |-> StatusReason(st.coll[key])])]
    ELSE [coll |-> [st.coll EXCEPT ![key] = ReservedDoc(@, req, until)],
          log |-> <<CustodyRecord(key, req.item_type, "Reservation",
                                  st.coll[key].storage_location,
                                  st.coll[key].storage_location)>> \o st.log,
          done |-> Append(st.done, item_id),
          failed |-> st.failed]

\* one pass of the for-loop body; st = [coll, log, done, failed]
ReserveItem(st, item_id, req, until) ==
    LET key == FindOne(st.coll, item_id) IN
    IF key = None
    THEN [st EXCEPT !.failed = Append(@, [id |-> item_id, reason |-> <<"Not found">>])]
    ELSE IF ~CanReserve(st.coll[key])
    THEN [st EXCEPT !.failed =
             Append(@, [id |-> item_id, reason |-> StatusReason(st.coll[key])])]
    ELSE [coll |-> [st.coll EXCEPT ![key] = ReservedDoc(@, req, until)],
          log |-> Append(st.log,
                    CustodyRecord(key, req.item_type, "Reservation",
                                  st.coll[key].storage_location,
                                  st.coll[key].storage_location)),
          done |-> Append(st.done, item_id),
          failed |-> st.failed]

RECURSIVE ReserveLoop(_, _, _, _)
ReserveLoop(st, ids, req, until) ==
    IF ids = <<>> THEN st
    ELSE ReserveLoop(ReserveItem(st, Head(ids), req, until), Tail(ids), req, until)

Reserve(user, item_type, item_ids, reserved_for, supplied, request_id) ==
    LET req == [op |-> "reserve", user |-> user, item_type |-> item_type,
                item_ids |-> item_ids, target |-> reserved_for,
                reserved_until |-> supplied, request_id |-> request_id]
        until == EffectiveUntil(supplied, now)
        st == ReserveLoop([coll |-> CollectionOf(item_type), log |-> chain_custody,
                           done |-> <<>>, failed |-> <<>>], item_ids, req, until)
    IN  /\ Len(st.log) <= MaxLog
        /\ blood_units' = IF item_type = "unit" THEN st.coll ELSE blood_units
        /\ components' = IF item_type = "unit" THEN components ELSE st.coll
        /\ chain_custody' = st.log
        /\ response' = [NoResponse EXCEPT !.request = req, !.http = 200,
                           !.status = BatchStatus(st.done), !.done = st.done,
                           !.failed = st.failed, !.reserved_until = until]
        /\ UNCHANGED <<storage_locations, blood_requests, issuances, now>>

\* ------------------------------------------------ release (lines 867-922)
\* slip: reserved_request_id is missing from the $unset
ReleaseUpdate_KeepsRequestId(item) ==
    [item EXCEPT !.status = "ready_to_use",
                 !.reserved_for = None,
                 !.reserved_until = NoTime,
                 !.reserved_by = None]

\* the $set / $unset of the update_one
ReleaseUpdate(item) ==
    [item EXCEPT !.status = "ready_to_use",
                 !.reserved_for = None,
                 !.reserved_until = NoTime,
                 !.reserved_request_id = None,
                 !.reserved_by = None]

IsReserved(item) == item.status = "reserved"

ReleaseReservation(user, item_type, item_id) ==
    LET req == [NoRequest EXCEPT !.op = "release", !.user = user,
                   !.item_type = item_type, !.item_ids = <<item_id>>]
        coll == CollectionOf(item_type)
        key == FindOne(coll, item_id)
    IN  IF key = None
        THEN /\ response' = [NoResponse EXCEPT !.request = req, !.http = 404,
                                !.status = "Item not found"]
             /\ UNCHANGED <<blood_units, components, storage_locations,
                            chain_custody, blood_requests, issuances, now>>
        ELSE IF ~IsReserved(coll[key])
        THEN /\ response' = [NoResponse EXCEPT !.request = req, !.http = 400,
                                !.status = "Item is not currently reserved"]
             /\ UNCHANGED <<blood_units, components, storage_locations,
                            chain_custody, blood_requests, issuances, now>>
        ELSE /\ Len(chain_custody) < MaxLog
             /\ blood_units' = IF item_type = "unit"
                               THEN [coll EXCEPT ![key] = ReleaseUpdate(@)]
                               ELSE blood_units
             /\ components' = IF item_type = "unit" THEN components
                              ELSE [coll EXCEPT ![key] = ReleaseUpdate(@)]
             /\ chain_custody' =
                  Append(chain_custody,
                         CustodyRecord(key, item_type, "Reservation Release",
                                       "Reserved", coll[key].storage_location))
             /\ response' = [NoResponse EXCEPT !.request = req, !.http = 200,
                                !.status = "success", !.done = <<item_id>>]
             /\ UNCHANGED <<storage_locations, blood_requests, issuances, now>>

\* ------------------------------------------- auto-release (lines 972-1023)
\* slip: $lte in place of $lt
Expired_Inclusive(item, t) ==
    /\ item.status = "reserved"
    /\ item.reserved_until # NoTime
    /\ item.reserved_until <= t

\* the update_many filter {"status": "reserved", "reserved_until": {"$lt": now}}
Expired(item, t) ==
    /\ item.status = "reserved"
    /\ item.reserved_until # NoTime
    /\ item.reserved_until < t

\* slip: the $set of the status and the $unset of reserved_until are missing
SweepUpdate_KeepsHold(item) ==
    [item EXCEPT !.reserved_for = None,
                 !.reserved_request_id = None,
                 !.reserved_by = None]

\* the update_many $set / $unset
SweepUpdate(item) ==
    [item EXCEPT !.status = "ready_to_use",
                 !.reserved_for = None,
                 !.reserved_until = NoTime,
                 !.reserved_request_id = None,
                 !.reserved_by = None]

UpdateManyExpired(coll, t) ==
    [k \in DOMAIN coll |-> IF Expired(coll[k], t) THEN SweepUpdate(coll[k]) ELSE coll[k]]

\* modified_count of the update_many
ModifiedCount(coll, t) == Cardinality({k \in DOMAIN coll : Expired(coll[k], t)})

\* slip: lab_tech is let through as well
MaySweep_AlsoLabTech(user) == Role(user) \in {"admin", "inventory", "lab_tech"}

\* current_user["role"] in ["admin", "inventory"]
MaySweep(user) == Role(user) \in {"admin", "inventory"}

AutoRelease(user) ==
    LET req == [NoRequest EXCEPT !.op = "auto_release", !.user = user] IN
    IF ~MaySweep(user)
    THEN /\ response' = [NoResponse EXCEPT !.request = req, !.http = 403,
                            !.status = "Insufficient permissions"]
         /\ UNCHANGED <<blood_units, components, storage_locations,
                        chain_custody, blood_requests, issuances, now>>
    ELSE /\ blood_units' = UpdateManyExpired(blood_units, now)
         /\ components' = UpdateManyExpired(components, now)
         /\ response' = [NoResponse EXCEPT !.request = req, !.http = 200,
                            !.status = "success",
                            !.units_released = ModifiedCount(blood_units, now),
                            !.components_released = ModifiedCount(components, now),
                            !.total_released = ModifiedCount(blood_units, now)
                                               + ModifiedCount(components, now)]
         /\ UNCHANGED <<storage_locations, chain_custody, blood_requests,
                        issuances, now>>

\* --------------------------------- reserved list (lines 925-969)
\* the order in which find() returns the documents of a collection
UnitOrder == <<"u1">>
ComponentOrder == <<"c1", "c2">>

\* is_expired: time_remaining is not None and time_remaining < 0
IsExpired(item, t) == item.reserved_until # NoTime /\ item.reserved_until - t < 0

\* one entry of all_reserved
ReservedEntry(item, item_type, t) ==
    [item_id |-> item.human_id, item_type |-> item_type,
     reserved_for |-> item.reserved_for, reserved_until |-> item.reserved_until,
     is_expired |-> IsExpired(item, t)]

RECURSIVE ReservedEntries(_, _, _, _)
ReservedEntries(coll, order, item_type, t) ==
    IF order = <<>> THEN <<>>
    ELSE (IF coll[Head(order)].status = "reserved"
          THEN <<ReservedEntry(coll[Head(order)], item_type, t)>>
          ELSE <<>>)
         \o ReservedEntries(coll, Tail(order), item_type, t)

\* slip: the read puts lapsed holds back to ready_to_use
GetReservedItems_ReleasesLapsed(user) ==
    /\ response' = [NoResponse EXCEPT
                       !.request = [NoRequest EXCEPT !.op = "get_reserved",
                                                     !.user = user],
                       !.http = 200,
                       !.items = ReservedEntries(blood_units, UnitOrder, "unit", now)
                                 \o ReservedEntries(components, ComponentOrder,
                                                    "component", now)]
    /\ blood_units' = UpdateManyExpired(blood_units, now)
    /\ components' = UpdateManyExpired(components, now)
    /\ UNCHANGED <<storage_locations, chain_custody, blood_requests, issuances, now>>

GetReservedItems(user) ==
    /\ response' = [NoResponse EXCEPT
                       !.request = [NoRequest EXCEPT !.op = "get_reserved",
                                                     !.user = user],
                       !.http = 200,
                       !.items = ReservedEntries(blood_units, UnitOrder, "unit", now)
                                 \o ReservedEntries(components, ComponentOrder,
                                                    "component", now)]
    /\ UNCHANGED <<blood_units, components, storage_locations, chain_custody,
                   blood_requests, issuances, now>>

\* ------------------------------- requests.py: approve (lines 50-64)
\* datetime.now(timezone.utc).isoformat().split("T")[0]: the calendar day
DateOf(t) == t \div 24

ApprovedDoc(request, user, t) ==
    [request EXCEPT !.status = "approved", !.approved_by = user,
                    !.approval_date = DateOf(t)]

ApproveRequest(user, request_id) ==
    LET req == [NoRequest EXCEPT !.op = "approve", !.user = user,
                   !.target = request_id]
        key == FindOne(blood_requests, request_id)
        \* result.modified_count: a matched document that the $set leaves
        \* as it was is not counted
        modified_count == IF key # None
                             /\ ApprovedDoc(blood_requests[key], user, now)
                                  # blood_requests[key]
                          THEN 1 ELSE 0
    IN  /\ blood_requests' = IF key = None THEN blood_requests
                             ELSE [blood_requests EXCEPT
                                     ![key] = ApprovedDoc(@, user, now)]
        /\ response' = IF modified_count = 0
                       THEN [NoResponse EXCEPT !.request = req, !.http = 404,
                                !.status = "Request not found"]
                       ELSE [NoResponse EXCEPT !.request = req, !.http = 200,
                                !.status = "success"]
        /\ UNCHANGED <<blood_units, components, storage_locations,
                       chain_custody, issuances, now>>

\* --------------------- requests.py: create_issuance (lines 79-114)
\* the uuid of the n-th issuance inserted
IssuanceId(n) == CASE n = 1 -> "i1" [] n = 2 -> "i2" [] OTHER -> "i3"

\* update_one(..., {"$set": {"status": "reserved"}}) for each component id;
\* an id that matches no document updates nothing
RECURSIVE MarkReserved(_, _)
MarkReserved(coll, ids) ==
    IF ids = <<>> THEN coll
    ELSE LET key == FindOne(coll, Head(ids)) IN
         MarkReserved(IF key = None THEN coll
                      ELSE [coll EXCEPT ![key].status = "reserved"],
                      Tail(ids))

CreateIssuance(user, request_id, component_ids) ==
    LET req == [NoRequest EXCEPT !.op = "create_issuance", !.user = user,
                   !.item_type = "component", !.item_ids = component_ids,
                   !.target = request_id]
        key == FindOne(blood_requests, request_id)
    IN  IF key = None
        THEN /\ response' = [NoResponse EXCEPT !.request = req, !.http = 404,
                                !.status = "Request not found"]
             /\ UNCHANGED <<blood_units, components, storage_locations,
                            chain_custody, blood_requests, issuances, now>>
        ELSE IF blood_requests[key].status # "approved"
        THEN /\ response' = [NoResponse EXCEPT !.request = req, !.http = 400,
                                !.status = "Request must be approved first"]
             /\ UNCHANGED <<blood_units, components, storage_locations,
                            chain_custody, blood_requests, issuances, now>>
        ELSE /\ Len(issuances) < MaxIssuances
             /\ issuances' = Append(issuances,
                                [id |-> IssuanceId(Len(issuances) + 1),
                                 human_id |-> HumanId(IssuanceId(Len(issuances) + 1)),
                                 request_id |-> key,
                                 component_ids |-> component_ids,
                                 issued_by |-> user, status |-> "picking",
                                 received_by |-> None, shipment_id |-> None])
             /\ components' = MarkReserved(components, component_ids)
             /\ response' = [NoResponse EXCEPT !.request = req, !.http = 200,
                                !.status = "success"]
             /\ UNCHANGED <<blood_units, storage_locations, chain_custody,
                            blood_requests, now>>

\* ------------------------------- requests.py: reject (lines 66-74)
RejectedDoc(request, reason) ==
    [request EXCEPT !.status = "rejected", !.notes = reason]

RejectRequest(user, request_id, reason) ==
    LET req == [NoRequest EXCEPT !.op = "reject", !.user = user,
                   !.target = request_id]
        key == FindOne(blood_requests, request_id)
        modified_count == IF key # None
                             /\ RejectedDoc(blood_requests[key], reason)
                                  # blood_requests[key]
                          THEN 1 ELSE 0
    IN  /\ blood_requests' = IF key = None THEN blood_requests
                             ELSE [blood_requests EXCEPT
                                     ![key] = RejectedDoc(@, reason)]
        /\ response' = IF modified_count = 0
                       THEN [NoResponse EXCEPT !.request = req, !.http = 404,
                                !.status = "Request not found"]
                       ELSE [NoResponse EXCEPT !.request = req, !.http = 200,
                                !.status = "success"]
        /\ UNCHANGED <<blood_units, components, storage_locations,
                       chain_custody, issuances, now>>

\* ------------------- requests.py: pack, ship, deliver (lines 128-173)
\* find_one / update_one on a collection kept in insertion order: the
\* position of the first document whose id or human-readable id is x, or 0
FindSeq(seq, x) ==
    LET hits == {i \in 1..Len(seq) : seq[i].id = x \/ seq[i].human_id = x} IN
    IF hits = {} THEN 0 ELSE CHOOSE i \in hits : \A j \in hits : i <= j

\* the $set writes pack_timestamp = now().isoformat(), a value no stored
\* document holds, so a matched document always counts as modified
PackIssuance(user, issue_id) ==
    LET req == [NoRequest EXCEPT !.op = "pack", !.user = user, !.target = issue_id]
        i == FindSeq(issuances, issue_id)
        modified_count == IF i = 0 THEN 0 ELSE 1
    IN  /\ issuances' = IF i = 0 THEN issuances
                        ELSE [issuances EXCEPT ![i].status = "packing"]
        /\ response' = IF modified_count = 0
                       THEN [NoResponse EXCEPT !.request = req, !.http = 404,
                                !.status = "Issuance not found"]
                       ELSE [NoResponse EXCEPT !.request = req, !.http = 200,
                                !.status = "success"]
        /\ UNCHANGED <<blood_units, components, storage_locations,
                       chain_custody, blood_requests, now>>

\* update_one(..., {"$set": {"status": "issued"}}) for each component id
RECURSIVE MarkIssued(_, _)
MarkIssued(coll, ids) ==
    IF ids = <<>> THEN coll
    ELSE LET key == FindOne(coll, Head(ids)) IN
         MarkIssued(IF key = None THEN coll
                    ELSE [coll EXCEPT ![key].status = "issued"],
                    Tail(ids))

\* update_one({"id": id}, {"$set": {"status": st}}) on db.blood_requests
SetRequestStatus(reqs, id, st) ==
    IF id \in DOMAIN reqs THEN [reqs EXCEPT ![id].status = st] ELSE reqs

ShipIssuance(user, issue_id) ==
    LET req == [NoRequest EXCEPT !.op = "ship", !.user = user, !.target = issue_id]
        i == FindSeq(issuances, issue_id)
    IN  IF i = 0
        THEN /\ response' = [NoResponse EXCEPT !.request = req, !.http = 404,
                                !.status = "Issuance not found"]
             /\ UNCHANGED <<blood_units, components, storage_locations,
                            chain_custody, blood_requests, issuances, now>>
        ELSE /\ issuances' = [issuances EXCEPT ![i].status = "shipped"]
             /\ components' = MarkIssued(components, issuances[i].component_ids)
             /\ blood_requests' = SetRequestStatus(blood_requests,
                                                   issuances[i].request_id, "fulfilled")
             /\ response' = [NoResponse EXCEPT !.request = req, !.http = 200,
                                !.status = "success"]
             /\ UNCHANGED <<blood_units, storage_locations, chain_custody, now>>

DeliveredDoc(issuance, received_by) ==
    [issuance EXCEPT !.status = "delivered", !.received_by = received_by]

DeliverIssuance(user, issue_id, received_by) ==
    LET req == [NoRequest EXCEPT !.op = "deliver", !.user = user,
                   !.target = issue_id]
        i == FindSeq(issuances, issue_id)
        modified_count == IF i # 0 /\ DeliveredDoc(issuances[i], received_by)
                                        # issuances[i]
                          THEN 1 ELSE 0
    IN  /\ issuances' = IF i = 0 THEN issuances
                        ELSE [issuances EXCEPT ![i] = DeliveredDoc(@, received_by)]
        /\ response' = IF modified_count = 0
                       THEN [NoResponse EXCEPT !.request = req, !.http = 404,
                                !.status = "Issuance not found"]
                       ELSE [NoResponse EXCEPT !.request = req, !.http = 200,
                                !.status = "success"]
        /\ UNCHANGED <<blood_units, components, storage_locations,
                       chain_custody, blood_requests, now>>

\* ---------------------------- logistics_enhanced.py: shipments
\* tracking_updates and temperature_log, which only the tracking views
\* read, are left out of the shipment document
ShipmentId(n) == CASE n = 1 -> "sh1" [] n = 2 -> "sh2" [] OTHER -> "sh3"

\* update_one({"id": id}, {"$set": ...}) on db.issuances
UpdateIssuance(seq, id, status, received_by, shipment_id) ==
    [i \in 1..Len(seq) |->
        IF seq[i].id = id
        THEN [seq[i] EXCEPT
                !.status = status,
                !.received_by = IF received_by = None THEN @ ELSE received_by,
                !.shipment_id = IF shipment_id = None THEN @ ELSE shipment_id]
        ELSE seq[i]]

\* create_shipment (lines 66-155), for a request that names no vehicle_id
CreateShipment(user, issuance_id) ==
    LET req == [NoRequest EXCEPT !.op = "create_shipment", !.user = user,
                   !.target = issuance_id]
        i == FindSeq(issuances, issuance_id)
        sid == ShipmentId(Len(shipments) + 1)
    IN  IF i = 0
        THEN /\ response' = [NoResponse EXCEPT !.request = req, !.http = 404,
                                !.status = "Issuance not found"]
             /\ UNCHANGED <<issuances, shipments>>
        ELSE /\ Len(shipments) < MaxShipments
             /\ shipments' = Append(shipments,
                                [id |-> sid, human_id |-> HumanId(sid),
                                 issuance_id |-> issuances[i].id,
                                 status |-> "preparing", received_by |-> None])
             /\ issuances' = UpdateIssuance(issuances, issuances[i].id,
                                            "dispatching", None, sid)
             /\ response' = [NoResponse EXCEPT !.request = req, !.http = 200,
                                !.status = "success"]

\* dispatch_shipment (lines 209-245)
DispatchShipment(user, shipment_id) ==
    LET req == [NoRequest EXCEPT !.op = "dispatch", !.user = user,
                   !.target = shipment_id]
        j == FindSeq(shipments, shipment_id)
    IN  IF j = 0
        THEN /\ response' = [NoResponse EXCEPT !.request = req, !.http = 404,
                                !.status = "Shipment not found"]
             /\ UNCHANGED <<issuances, shipments>>
        ELSE /\ shipments' = [shipments EXCEPT ![j].status = "in_transit"]
             /\ issuances' = UpdateIssuance(issuances, shipments[j].issuance_id,
                                            "in_transit", None, None)
             /\ response' = [NoResponse EXCEPT !.request = req, !.http = 200,
                                !.status = "success"]

\* the members of TrackingStatus that add_tracking_update names
TrackingStatuses ==
    {"DELIVERED", "PICKED_UP", "IN_TRANSIT", "OUT_FOR_DELIVERY", "DELAYED", "FAILED"}

\* update_status of add_tracking_update
ShipmentStatusOf(tracking_status) ==
    CASE tracking_status = "DELIVERED" -> "delivered"
      [] tracking_status \in {"PICKED_UP", "IN_TRANSIT", "OUT_FOR_DELIVERY"} -> "in_transit"
      [] tracking_status = "DELAYED" -> "delayed"
      [] tracking_status = "FAILED" -> "failed"

\* add_tracking_update (lines 247-303)
AddTrackingUpdate(user, shipment_id, tracking_status) ==
    LET req == [NoRequest EXCEPT !.op = "tracking", !.user = user,
                   !.target = shipment_id]
        j == FindSeq(shipments, shipment_id)
    IN  IF j = 0
        THEN /\ response' = [NoResponse EXCEPT !.request = req, !.http = 404,
                                !.status = "Shipment not found"]
             /\ UNCHANGED <<issuances, shipments>>
        ELSE /\ shipments' = [shipments EXCEPT
                                ![j].status = ShipmentStatusOf(tracking_status)]
             /\ issuances' = IF tracking_status = "DELIVERED"
                             THEN UpdateIssuance(issuances, shipments[j].issuance_id,
                                                 "delivered", None, None)
                             ELSE issuances
             /\ response' = [NoResponse EXCEPT !.request = req, !.http = 200,
                                !.status = "success"]

\* deliver_shipment (lines 305-349)
DeliverShipment(user, shipment_id, received_by) ==
    LET req == [NoRequest EXCEPT !.op = "deliver_shipment", !.user = user,
                   !.target = shipment_id]
        j == FindSeq(shipments, shipment_id)
    IN  IF j = 0
        THEN /\ response' = [NoResponse EXCEPT !.request = req, !.http = 404,
                                !.status = "Shipment not found"]
             /\ UNCHANGED <<issuances, shipments>>
        ELSE /\ shipments' = [shipments EXCEPT ![j].status = "delivered",
                                               ![j].received_by = received_by]
             /\ issuances' = UpdateIssuance(issuances, shipments[j].issuance_id,
                                            "delivered", received_by, None)
             /\ response' = [NoResponse EXCEPT !.request = req, !.http = 200,
                                !.status = "success"]

\* ---------------------------------- disposition.py: returns, discards
ReturnId(n) == CASE n = 1 -> "rt1" [] n = 2 -> "rt2" [] OTHER -> "rt3"

\* update_one({"id": id}, {"$set": {"status": st}}) on db.components or
\* db.blood_units
SetItemStatus(coll, id, st) ==
    IF id \in DOMAIN coll THEN [coll EXCEPT ![id].status = st] ELSE coll

\* create_return (lines 46-81)
CreateReturn(user, component_id) ==
    LET req == [NoRequest EXCEPT !.op = "create_return", !.user = user,
                   !.item_type = "component", !.item_ids = <<component_id>>]
        key == FindOne(components, component_id)
        rid == ReturnId(Len(returns) + 1)
    IN  IF key = None
        THEN /\ response' = [NoResponse EXCEPT !.request = req, !.http = 404,
                                !.status = "Component not found"]
             /\ UNCHANGED <<components, returns>>
        ELSE /\ Len(returns) < MaxReturns
             /\ returns' = Append(returns,
                              [id |-> rid, human_id |-> HumanId(rid),
                               component_id |-> key, qc_pass |-> None,
                               decision |-> None, processed_by |-> None])
             /\ components' = SetItemStatus(components, key, "returned")
             /\ response' = [NoResponse EXCEPT !.request = req, !.http = 200,
                                !.status = "success"]

\* new_status of process_return
ReturnStatus(decision) ==
    IF decision = "accept" THEN "ready_to_use" ELSE "discarded"

\* process_return (lines 88-131)
ProcessReturn(user, return_id, qc_pass, decision) ==
    LET req == [NoRequest EXCEPT !.op = "process_return", !.user = user,
                   !.target = return_id]
        j == FindSeq(returns, return_id)
    IN  IF j = 0
        THEN /\ response' = [NoResponse EXCEPT !.request = req, !.http = 404,
                                !.status = "Return record not found"]
             /\ UNCHANGED <<components, returns, discards>>
        ELSE /\ decision = "reject" => Len(discards) < MaxDiscards
             /\ returns' = [returns EXCEPT ![j].qc_pass = qc_pass,
                                           ![j].decision = decision,
                                           ![j].processed_by = user]
             /\ components' = SetItemStatus(components, returns[j].component_id,
                                            ReturnStatus(decision))
             /\ discards' = IF decision = "reject"
                            THEN Append(discards,
                                   [component_id |-> returns[j].component_id,
                                    reason |-> "rejected_return",
                                    processed_by |-> None])
                            ELSE discards
             /\ response' = [NoResponse EXCEPT !.request = req, !.http = 200,
                                !.status = "success"]

\* create_discard (lines 134-168)
CreateDiscard(user, component_id, reason) ==
    LET req == [NoRequest EXCEPT !.op = "create_discard", !.user = user,
                   !.item_type = "component", !.item_ids = <<component_id>>]
        key == FindOne(components, component_id)
    IN  IF key = None
        THEN /\ response' = [NoResponse EXCEPT !.request = req, !.http = 404,
                                !.status = "Component not found"]
             /\ UNCHANGED <<components, discards>>
        ELSE /\ Len(discards) < MaxDiscards
             /\ discards' = Append(discards,
                               [component_id |-> key, reason |-> reason,
                                processed_by |-> user])
             /\ components' = SetItemStatus(components, key, "discarded")
             /\ response' = [NoResponse EXCEPT !.request = req, !.http = 200,
                                !.status = "success"]

\* -------------------------------- quarantine.py: resolve (lines 18-54)
MayResolve(user) == Role(user) \in {"admin", "qc_manager", "lab_tech"}

\* new_status of resolve_quarantine
QuarantineStatus(disposition) ==
    IF disposition = "release" THEN "ready_to_use" ELSE "discarded"

ResolveQuarantine(user, quarantine_id, retest_result, disposition) ==
    LET req == [NoRequest EXCEPT !.op = "resolve", !.user = user,
                   !.target = quarantine_id]
    IN  IF ~MayResolve(user)
        THEN /\ response' = [NoResponse EXCEPT !.request = req, !.http = 403,
                                !.status = "Insufficient permissions"]
             /\ UNCHANGED <<blood_units, components, quarantine>>
        ELSE IF quarantine_id \notin DOMAIN quarantine
        THEN /\ response' = [NoResponse EXCEPT !.request = req, !.http = 404,
                                !.status = "Quarantine record not found"]
             /\ UNCHANGED <<blood_units, components, quarantine>>
        ELSE LET q == quarantine[quarantine_id] IN
             /\ quarantine' = [quarantine EXCEPT
                                 ![quarantine_id].retest_result = retest_result,
                                 ![quarantine_id].disposition = disposition,
                                 ![quarantine_id].resolved_by = user]
             /\ blood_units' = IF q.unit_type = "unit"
                               THEN SetItemStatus(blood_units, q.unit_component_id,
                                                  QuarantineStatus(disposition))
                               ELSE blood_units
             /\ components' = IF q.unit_type = "unit" THEN components
                              ELSE SetItemStatus(components, q.unit_component_id,
                                                 QuarantineStatus(disposition))
             /\ response' = [NoResponse EXCEPT !.request = req, !.http = 200,
                                !.status = "success"]

\* ------------------------------------------------------------------ clock
Advance ==
    /\ now + Tick <= MaxNow
    /\ now' = now + Tick
    /\ UNCHANGED <<blood_units, components, storage_locations, chain_custody,
                   blood_requests, issuances, response>>

\* ------------------------------------------------------- request / answer
\* Handlers run one at a time: a request is taken when no answer is in
\* flight, and `return` (or the raised HTTPException) hands the answer over.
Idle == response = NoResponse

Respond ==
    /\ ~Idle
    /\ response' = NoResponse
    /\ UNCHANGED <<blood_units, components, storage_locations, chain_custody,
                   blood_requests, issuances, now>>

\* ------------------------------------- reserve, one await at a time
\* reserve_items as the event loop runs it: the handler is suspended at
\* each awaited store call (find_one, update_one, insert_one), and another
\* request's handler may run in between.  calls[p] holds the handler's
\* locals.
ActiveIds(p) == IF calls[p].pc \in {"idle", "done"} THEN 0
                ELSE Len(calls[p].request.item_ids)

\* lines 795-804
CallBegin(p, in, item_type, item_ids) ==
    /\ calls[p].pc = "idle"
    /\ Len(chain_custody) + Len(item_ids) + ActiveIds("A") + ActiveIds("B") <= MaxLog
    /\ calls' = [calls EXCEPT ![p] =
                   [NoCall EXCEPT
                      !.pc = "find",
                      !.request = [op |-> "reserve", user |-> in.user,
                                   item_type |-> item_type, item_ids |-> item_ids,
                                   target |-> in.reserved_for,
                                   reserved_until |-> in.reserved_until,
                                   request_id |-> in.request_id],
                      !.reserved_until = EffectiveUntil(in.reserved_until, now),
                      !.idx = 1]]
    /\ UNCHANGED <<blood_units, components, storage_locations, chain_custody,
                   blood_requests, issuances, now, response, expiry, flowVars>>

\* lines 806-819: await find_one, then the two tests on what was read
CallFind(p) ==
    LET c == calls[p]
        coll == CollectionOf(c.request.item_type)
        item_id == c.request.item_ids[c.idx]
        key == FindOne(coll, item_id)
    IN  /\ c.pc = "find"
        /\ c.idx <= Len(c.request.item_ids)
        /\ calls' = [calls EXCEPT ![p] =
             IF key = None
             THEN [c EXCEPT !.failed = Append(@, [id |-> item_id,
                                                  reason |-> <<"Not found">>]),
                            !.idx = @ + 1]
             ELSE IF ~CanReserve(coll[key])
             THEN [c EXCEPT !.failed = Append(@, [id |-> item_id,
                                                  reason |-> StatusReason(coll[key])]),
                            !.idx = @ + 1]
             ELSE [c EXCEPT !.pc = "update", !.key = key, !.item = coll[key]]]
        /\ UNCHANGED <<blood_units, components, storage_locations, chain_custody,
                       blood_requests, issuances, now, response, expiry, flowVars>>

\* lines 821-834: await update_one; the $set is applied to the document as
\* it is now, matched by id alone
CallUpdate(p) ==
    LET c == calls[p] IN
    /\ c.pc = "update"
    /\ blood_units' = IF c.request.item_type = "unit"
                      THEN [blood_units EXCEPT ![c.key] =
                              ReservedDoc(@, c.request, c.reserved_until)]
                      ELSE blood_units
    /\ components' = IF c.request.item_type = "unit" THEN components
                     ELSE [components EXCEPT ![c.key] =
                             ReservedDoc(@, c.request, c.reserved_until)]
    /\ calls' = [calls EXCEPT ![p].pc = "log"]
    /\ UNCHANGED <<storage_locations, chain_custody, blood_requests, issuances,
                   now, response, expiry, flowVars>>

\* lines 836-853: await insert_one, then reserved.append
CallLog(p) ==
    LET c == calls[p] IN
    /\ c.pc = "log"
    /\ chain_custody' = Append(chain_custody,
                          CustodyRecord(c.key, c.request.item_type, "Reservation",
                                        c.item.storage_location,
                                        c.item.storage_location))
    /\ calls' = [calls EXCEPT ![p] =
                   [c EXCEPT !.pc = "find", !.idx = @ + 1,
                             !.done = Append(@, c.request.item_ids[c.idx])]]
    /\ UNCHANGED <<blood_units, components, storage_locations, blood_requests,
                   issuances, now, response, expiry, flowVars>>

\* lines 857-864
CallReturn(p) ==
    /\ calls[p].pc = "find"
    /\ calls[p].idx > Len(calls[p].request.item_ids)
    /\ calls' = [calls EXCEPT ![p].pc = "done"]
    /\ UNCHANGED <<blood_units, components, storage_locations, chain_custody,
                   blood_requests, issuances, now, response, expiry, flowVars>>

\* Two reserve requests in flight at once, next to release and the sweep.
NextConc ==
    \/ \E p \in Calls, in \in ReserveInputs, ty \in ItemTypes :
          \E ids \in Batches(ty) : CallBegin(p, in, ty, ids)
    \/ \E p \in Calls : CallFind(p)
    \/ \E p \in Calls : CallUpdate(p)
    \/ \E p \in Calls : CallLog(p)
    \/ \E p \in Calls : CallReturn(p)
    \/ /\ Idle
       /\ \E ty \in ItemTypes : \E id \in InputItemIds(ty) :
            ReleaseReservation("admin1", ty, id)
       /\ UNCHANGED sideVars
    \/ /\ Idle
       /\ \E u \in Users : AutoRelease(u)
       /\ UNCHANGED sideVars
    \/ Respond /\ UNCHANGED sideVars

SpecConc == Init /\ [][NextConc]_vars

\* ---------------------------------------- move, one await at a time
\* move_items as the event loop runs it: the destination is read once,
\* before the loop, and every later store call is a separate await at which
\* another request's handler may run or the store may raise.  calls[p].seen
\* is the store as the current pass of the loop found it.
MovePcs == {"move_find", "move_update", "move_inc_dest", "move_inc_src", "move_log"}

MoveActiveIds(p) == IF calls[p].pc \in MovePcs
                    THEN Len(calls[p].request.item_ids) ELSE 0

Seen == [units |-> blood_units, comps |-> components,
         locs |-> storage_locations, log |-> chain_custody]

moveFrame == <<blood_requests, issuances, now, response, expiry, flowVars>>

\* lines 441-460: await find_one on the destination, then the capacity test
\* on the document that was read
MoveCallBegin(p, user, item_type, item_ids, destination_storage_id) ==
    LET req == [NoRequest EXCEPT !.op = "move", !.user = user,
                   !.item_type = item_type, !.item_ids = item_ids,
                   !.target = destination_storage_id]
        dkey == FindOne(storage_locations, destination_storage_id)
    IN  /\ calls[p].pc = "idle"
        /\ Len(chain_custody) + Len(item_ids)
             + MoveActiveIds("A") + MoveActiveIds("B") <= MaxLog
        /\ calls' = [calls EXCEPT ![p] =
             IF dkey = None
             THEN [NoCall EXCEPT !.pc = "done", !.request = req, !.http = 404]
             ELSE IF ExceedsCapacity(item_ids, storage_locations[dkey])
             THEN [NoCall EXCEPT !.pc = "done", !.request = req, !.http = 400]
             ELSE [NoCall EXCEPT !.pc = "move_find", !.request = req, !.idx = 1,
                                 !.dkey = dkey,
                                 !.destination = storage_locations[dkey]]]
        /\ UNCHANGED <<blood_units, components, storage_locations, chain_custody,
                       moveFrame>>

\* lines 465-481: await find_one on the item, then the two tests
MoveCallFind(p) ==
    LET c == calls[p]
        coll == CollectionOf(c.request.item_type)
        item_id == c.request.item_ids[c.idx]
        key == FindOne(coll, item_id)
    IN  /\ c.pc = "move_find"
        /\ c.idx <= Len(c.request.item_ids)
        /\ calls' = [calls EXCEPT ![p] =
             IF key = None
             THEN [c EXCEPT !.failed = Append(@, [id |-> item_id,
                                                  reason |-> <<"Not found">>]),
                            !.idx = @ + 1, !.seen = Seen]
             ELSE IF ~is_temp_compatible(
                        MoveComponentType(coll[key], c.request.item_type),
                        c.destination)
             THEN [c EXCEPT !.failed = Append(@, [id |-> item_id,
                                         reason |-> <<"Temperature incompatible">>]),
                            !.idx = @ + 1, !.seen = Seen]
             ELSE [c EXCEPT !.pc = "move_update", !.key = key, !.item = coll[key],
                            !.seen = Seen]]
        /\ UNCHANGED <<blood_units, components, storage_locations, chain_custody,
                       moveFrame>>

\* lines 483-490: await update_one on the item, matched by id alone
MoveCallUpdate(p) ==
    LET c == calls[p] IN
    /\ c.pc = "move_update"
    /\ blood_units' = IF c.request.item_type = "unit"
                      THEN [blood_units EXCEPT
                              ![c.key].storage_location_id = c.dkey,
                              ![c.key].storage_location = c.destination.human_id]
                      ELSE blood_units
    /\ components' = IF c.request.item_type = "unit" THEN components
                     ELSE [components EXCEPT
                             ![c.key].storage_location_id = c.dkey,
                             ![c.key].storage_location = c.destination.human_id]
    /\ calls' = [calls EXCEPT ![p].pc = "move_inc_dest"]
    /\ UNCHANGED <<storage_locations, chain_custody, moveFrame>>

\* lines 493-496: await the $inc of +1 on the destination
MoveCallIncDest(p) ==
    LET c == calls[p] IN
    /\ c.pc = "move_inc_dest"
    /\ storage_locations' = IncOccupancy(storage_locations, c.dkey, 1)
    /\ calls' = [calls EXCEPT ![p].pc =
                   IF c.item.storage_location_id # None
                   THEN "move_inc_src" ELSE "move_log"]
    /\ UNCHANGED <<blood_units, components, chain_custody, moveFrame>>

\* lines 497-501: await the $inc of -1 on the location the item was read at
MoveCallIncSource(p) ==
    LET c == calls[p] IN
    /\ c.pc = "move_inc_src"
    /\ storage_locations' =
          IncOccupancy(storage_locations, c.item.storage_location_id, -1)
    /\ calls' = [calls EXCEPT ![p].pc = "move_log"]
    /\ UNCHANGED <<blood_units, components, chain_custody, moveFrame>>

\* lines 504-520: await insert_one, then moved.append
MoveCallLog(p) ==
    LET c == calls[p] IN
    /\ c.pc = "move_log"
    /\ chain_custody' = Append(chain_custody,
                          CustodyRecord(c.key, c.request.item_type,
                                        "Storage Transfer",
                                        c.item.storage_location,
                                        c.destination.human_id))
    /\ calls' = [calls EXCEPT ![p] =
                   [c EXCEPT !.pc = "move_find", !.idx = @ + 1,
                             !.done = Append(@, c.request.item_ids[c.idx])]]
    /\ UNCHANGED <<blood_units, components, storage_locations, moveFrame>>

\* lines 521-522: the awaited store call raises; the except branch reports
\* the id with str(e) and the loop goes on
MoveCallRaise(p) ==
    LET c == calls[p] IN
    /\ c.pc \in MovePcs
    /\ c.idx <= Len(c.request.item_ids)
    /\ calls' = [calls EXCEPT ![p] =
                   [c EXCEPT !.pc = "move_find", !.idx = @ + 1,
                             !.failed = Append(@, [id |-> c.request.item_ids[c.idx],
                                                   reason |-> <<"store error">>]),
                             !.seen = IF c.pc = "move_find" THEN Seen ELSE @]]
    /\ UNCHANGED <<blood_units, components, storage_locations, chain_custody,
                   moveFrame>>

\* lines 524-531
MoveCallReturn(p) ==
    /\ calls[p].pc = "move_find"
    /\ calls[p].idx > Len(calls[p].request.item_ids)
    /\ calls' = [calls EXCEPT ![p].pc = "done", ![p].http = 200]
    /\ UNCHANGED <<blood_units, components, storage_locations, chain_custody,
                   moveFrame>>

\* Two move requests in flight at once.
NextMove ==
    \/ \E p \in Calls, ty \in ItemTypes, d \in InputStorageIds :
          \E ids \in Batches(ty) : MoveCallBegin(p, "admin1", ty, ids, d)
    \/ \E p \in Calls : MoveCallFind(p)
    \/ \E p \in Calls : MoveCallUpdate(p)
    \/ \E p \in Calls : MoveCallIncDest(p)
    \/ \E p \in Calls : MoveCallIncSource(p)
    \/ \E p \in Calls : MoveCallLog(p)
    \/ \E p \in Calls : MoveCallRaise(p)
    \/ \E p \in Calls : MoveCallReturn(p)

SpecMove == Init /\ [][NextMove]_vars

\* ----------------------------------- expiry classifier (lines 329-340)
\* slip: <= in place of < at the first threshold
get_expiry_category_OffByOne(days_remaining) ==
    IF days_remaining < 0 THEN "expired"
    ELSE IF days_remaining <= CriticalDays THEN "critical"
    ELSE IF days_remaining < WarningDays THEN "warning"
    ELSE IF days_remaining < CautionDays THEN "caution"
    ELSE "normal"

get_expiry_category(days_remaining) ==
    IF days_remaining < 0 THEN "expired"
    ELSE IF days_remaining < CriticalDays THEN "critical"
    ELSE IF days_remaining < WarningDays THEN "warning"
    ELSE IF days_remaining < CautionDays THEN "caution"
    ELSE "normal"

\* lines 251-257 of the by-expiry dashboard: an item whose expiry date is
\* days_remaining days from today gets its category
InitExpiry ==
    /\ InitStore
    /\ \E d \in (0 - MaxDays)..MaxDays :
         expiry = [days_remaining |-> d, expiry_category |-> None]

Classify ==
    /\ expiry.expiry_category = None
    /\ expiry' = [expiry EXCEPT
                    !.expiry_category = get_expiry_category(expiry.days_remaining)]
    /\ UNCHANGED <<blood_units, components, storage_locations, chain_custody,
                   blood_requests, issuances, now, response, calls, flowVars>>

NextExpiry == Classify

SpecExpiry == InitExpiry /\ [][NextExpiry]_vars

\* The inventory router: /inventory-enhanced/reserve, .../release,
\* .../auto-release, /reserved, /move and /move/validate.
Next ==
    \/ /\ Idle
       /\ \E in \in ReserveInputs, ty \in ItemTypes : \E ids \in Batches(ty) :
            Reserve(in.user, ty, ids, in.reserved_for, in.reserved_until, in.request_id)
       /\ UNCHANGED sideVars
    \/ /\ Idle
       /\ \E ty \in ItemTypes : \E id \in InputItemIds(ty) :
            ReleaseReservation("admin1", ty, id)
       /\ UNCHANGED sideVars
    \/ /\ Idle
       /\ \E u \in Users : AutoRelease(u)
       /\ UNCHANGED sideVars
    \/ /\ Idle
       /\ \E ty \in ItemTypes, d \in InputStorageIds : \E ids \in Batches(ty) :
            MoveItems("admin1", ty, ids, d)
       /\ UNCHANGED sideVars
    \/ /\ Idle
       /\ \E ty \in ItemTypes, d \in InputStorageIds : \E ids \in ValidateInputs(ty) :
            ValidateMove("admin1", ty, ids, d)
       /\ UNCHANGED sideVars
    \/ Idle /\ GetReservedItems("tech1") /\ UNCHANGED sideVars
    \/ Idle /\ Advance /\ UNCHANGED sideVars
    \/ Respond /\ UNCHANGED sideVars

Spec == Init /\ [][Next]_vars

\* The inventory router together with the request router's approve and
\* create-issuance: every handler of the model that writes an item's status.
IssuanceBatches == {<<"c1">>, <<"CP-2", AbsentId>>}

NextSystem ==
    \/ Next
    \/ /\ Idle
       /\ \E u \in Users, r \in InputRequestIds : ApproveRequest(u, r)
       /\ UNCHANGED sideVars
    \/ /\ Idle
       /\ \E r \in InputRequestIds, ids \in IssuanceBatches :
            CreateIssuance("admin1", r, ids)
       /\ UNCHANGED sideVars

SpecSystem == Init /\ [][NextSystem]_vars

\* Fulfilment of a request: the request and issuance routers and the
\* shipment handlers of the logistics router, next to reserve of the first
\* component.  The store starts with the refrigerator empty and the second
\* component ready.
InputIssuanceIds == {"i1", AbsentId}
InputShipmentIds == {"SHP-1", AbsentId}
InputReturnIds == {"rt1", AbsentId}
Receivers == {"nurse1"}
RejectReasons == {"no stock"}

logisticsFrame == <<blood_units, components, storage_locations, chain_custody,
                    blood_requests, now, calls, expiry, returns, discards,
                    quarantine>>

InitFulfilment ==
    /\ Init
    /\ storage_locations["s1"].current_occupancy = 0
    /\ components["c2"].status = "ready_to_use"

NextFulfilment ==
    \/ /\ Idle
       /\ \E in \in ReserveInputs :
            Reserve(in.user, "component", <<"c1">>, in.reserved_for,
                    in.reserved_until, in.request_id)
       /\ UNCHANGED sideVars
    \/ /\ Idle
       /\ \E r \in InputRequestIds : ApproveRequest("admin1", r)
       /\ UNCHANGED sideVars
    \/ /\ Idle
       /\ \E r \in InputRequestIds, why \in RejectReasons :
            RejectRequest("admin1", r, why)
       /\ UNCHANGED sideVars
    \/ /\ Idle
       /\ \E r \in InputRequestIds, ids \in IssuanceBatches :
            CreateIssuance("admin1", r, ids)
       /\ UNCHANGED sideVars
    \/ /\ Idle
       /\ \E i \in InputIssuanceIds : PackIssuance("admin1", i)
       /\ UNCHANGED sideVars
    \/ /\ Idle
       /\ \E i \in InputIssuanceIds : ShipIssuance("admin1", i)
       /\ UNCHANGED sideVars
    \/ /\ Idle
       /\ \E i \in InputIssuanceIds, by \in Receivers :
            DeliverIssuance("admin1", i, by)
       /\ UNCHANGED sideVars
    \/ /\ Idle
       /\ \E i \in InputIssuanceIds : CreateShipment("admin1", i)
       /\ UNCHANGED logisticsFrame
    \/ /\ Idle
       /\ \E sh \in InputShipmentIds : DispatchShipment("admin1", sh)
       /\ UNCHANGED logisticsFrame
    \/ /\ Idle
       /\ \E sh \in InputShipmentIds, ts \in TrackingStatuses :
            AddTrackingUpdate("admin1", sh, ts)
       /\ UNCHANGED logisticsFrame
    \/ /\ Idle
       /\ \E sh \in InputShipmentIds, by \in Receivers :
            DeliverShipment("admin1", sh, by)
       /\ UNCHANGED logisticsFrame
    \/ Respond /\ UNCHANGED sideVars

SpecFulfilment == InitFulfilment /\ [][NextFulfilment]_vars

\* What becomes of a component after it was issued, discarded or put in
\* quarantine: an issuance shipped for an approved request, returns,
\* discards and the resolution of the quarantine record.
\* the disposition parameter is a free string
Dispositions == {"release", "discard", "hold"}

dispositionFrame == <<blood_units, storage_locations, chain_custody,
                      blood_requests, issuances, now, calls, expiry, shipments,
                      quarantine>>

InitDisposition ==
    /\ Init
    /\ storage_locations["s1"].current_occupancy = 0

NextDisposition ==
    \/ /\ Idle
       /\ ApproveRequest("admin1", "r1")
       /\ UNCHANGED sideVars
    \/ /\ Idle
       /\ \E ids \in IssuanceBatches : CreateIssuance("admin1", "r1", ids)
       /\ UNCHANGED sideVars
    \/ /\ Idle
       /\ \E i \in InputIssuanceIds : ShipIssuance("admin1", i)
       /\ UNCHANGED sideVars
    \/ /\ Idle
       /\ \E c \in InputItemIds("component") : CreateReturn("admin1", c)
       /\ UNCHANGED <<dispositionFrame, discards>>
    \/ /\ Idle
       /\ \E rt \in InputReturnIds, decision \in {"accept", "reject"} :
            ProcessReturn("admin1", rt, decision = "accept", decision)
       /\ UNCHANGED dispositionFrame
    \/ /\ Idle
       /\ \E c \in InputItemIds("component") : CreateDiscard("admin1", c, "damaged")
       /\ UNCHANGED <<dispositionFrame, returns>>
    \/ /\ Idle
       /\ \E u \in Resolvers, q \in QuarantineIds \cup {AbsentId},
             disposition \in Dispositions :
            ResolveQuarantine(u, q, "non_reactive", disposition)
       /\ UNCHANGED <<storage_locations, chain_custody, blood_requests,
                      issuances, now, calls, expiry, shipments, returns,
                      discards>>
    \/ Respond /\ UNCHANGED sideVars

SpecDisposition == InitDisposition /\ [][NextDisposition]_vars

\* ----------------------------- by-storage dashboard (lines 84-143)
\* count_documents({"$or": [{"storage_location_id": id},
\*                          {"storage_location": location_code}],
\*                  "status": {"$in": [...]}})
CountStored(coll, sid, loc) ==
    Cardinality({k \in DOMAIN coll :
                   /\ \/ coll[k].storage_location_id = sid
                      \/ coll[k].storage_location = loc.human_id
                   /\ coll[k].status \in {"ready_to_use", "reserved", "quarantine"}})

\* the "current_occupancy" the dashboard reports for a location: total_items
DerivedOccupancy(sid) ==
    CountStored(blood_units, sid, storage_locations[sid])
      + CountStored(components, sid, storage_locations[sid])

\* Moves of components next to the handlers that take them out of stock,
\* from a store in which every counter agrees with what is stored.
InitOccupancy ==
    /\ Init
    /\ \A sid \in StorageIds :
          storage_locations[sid].current_occupancy = DerivedOccupancy(sid)

NextOccupancy ==
    \/ NextDisposition
    \/ /\ Idle
       /\ \E d \in InputStorageIds, id \in InputItemIds("component") :
            MoveItems("admin1", "component", <<id>>, d)
       /\ UNCHANGED sideVars
    \/ /\ Idle
       /\ \E in \in ReserveInputs :
            Reserve(in.user, "component", <<"c1">>, in.reserved_for,
                    in.reserved_until, in.request_id)
       /\ UNCHANGED sideVars
    \/ /\ Idle
       /\ \E id \in InputItemIds("component") :
            ReleaseReservation("admin1", "component", id)
       /\ UNCHANGED sideVars

SpecOccupancy == InitOccupancy /\ [][NextOccupancy]_vars

\* ========================================================================
\* Properties
\* ========================================================================
ItemKeys == UnitIds \cup ComponentIds
TypeOf(k) == IF k \in UnitIds THEN "unit" ELSE "component"
ItemAt(k) == IF k \in UnitIds THEN blood_units[k] ELSE components[k]
storeVars == <<blood_units, components, storage_locations, chain_custody>>

\* the step is the handler of `op` answering a request
Handled(op) == Idle /\ response'.request.op = op

\* id names item k in a request for items of type ty
Resolves(ty, id, k) == TypeOf(k) = ty /\ (id = k \/ id = HumanId(k))
Unknown(ty, id) == \A k \in ItemKeys : ~Resolves(ty, id, k)
Positions(req, k) ==
    {i \in 1..Len(req.item_ids) : Resolves(req.item_type, req.item_ids[i], k)}
Occurrences(req, id) ==
    Cardinality({i \in 1..Len(req.item_ids) : req.item_ids[i] = id})
FailedWith(resp, id, reason) ==
    Cardinality({i \in 1..Len(resp.failed) :
                    resp.failed[i] = [id |-> id, reason |-> reason]})
InDone(resp, id) == \E i \in 1..Len(resp.done) : resp.done[i] = id
CustodyOf(log, k) == SelectSeq(log, LAMBDA r : r.unit_id = k)
Cleared(item) ==
    /\ item.reserved_for = None
    /\ item.reserved_until = NoTime
    /\ item.reserved_request_id = None
    /\ item.reserved_by = None

\* C1: every unit or component whose status is reserved has reserved_for,
\* reserved_until and reserved_by set, whichever operation reserved it.
C1_ReservedHasFields ==
    \A k \in ItemKeys :
        ItemAt(k).status = "reserved"
        => /\ ItemAt(k).reserved_for # None
           /\ ItemAt(k).reserved_until # NoTime
           /\ ItemAt(k).reserved_by # None

\* C2: an item is reserved by at most one requester at a time, also when
\* reserve calls interleave: two reserve calls report the same item in their
\* reserved lists for different requesters only if the item was released in
\* between.
Reported(p, k) ==
    \E i \in 1..Len(calls[p].done) :
        Resolves(calls[p].request.item_type, calls[p].done[i], k)

C2_AtMostOneReserver ==
    \A k \in ItemKeys : \A p, q \in Calls :
        (/\ calls[p].request.target # calls[q].request.target
         /\ Reported(p, k)
         /\ Reported(q, k))
        => \E i \in 1..Len(chain_custody) :
              /\ chain_custody[i].unit_id = k
              /\ chain_custody[i].stage = "Reservation Release"

\* C3: reserve on an item whose status is already reserved puts the id in
\* failed with the reason "Cannot reserve - current status: reserved" and
\* leaves the item and its custody records as they were.
C3_ReserveOfReservedFails ==
    [][\A k \in ItemKeys :
         (/\ Handled("reserve")
          /\ Positions(response'.request, k) # {}
          /\ ItemAt(k).status = "reserved")
         => /\ \A i \in Positions(response'.request, k) :
                 LET id == response'.request.item_ids[i] IN
                 /\ FailedWith(response', id,
                               <<"Cannot reserve - current status: ", "reserved">>)
                      = Occurrences(response'.request, id)
                 /\ ~InDone(response', id)
            /\ ItemAt(k)' = ItemAt(k)
            /\ CustodyOf(chain_custody', k) = CustodyOf(chain_custody, k)]_vars

C3_Witness ==
    /\ response.request.op = "reserve"
    /\ \E i \in 1..Len(response.failed) :
          response.failed[i].reason
            = <<"Cannot reserve - current status: ", "reserved">>

\* C4: a move that names more ids than capacity - current_occupancy of the
\* destination is rejected as a whole with the insufficient-capacity error:
\* no item, no occupancy counter and no custody record changes.
C4_MoveOverCapacityRejected ==
    [][(/\ Handled("move")
        /\ \E s \in StorageIds :
             /\ response'.request.target \in {s, HumanId(s)}
             /\ Len(response'.request.item_ids)
                  > storage_locations[s].capacity
                    - storage_locations[s].current_occupancy)
       => /\ response'.http = 400
          /\ response'.status = "Insufficient capacity"
          /\ response'.done = <<>>
          /\ UNCHANGED storeVars]_vars

C4_Witness ==
    /\ response.request.op = "move"
    /\ response.http = 400
    /\ \E s \in StorageIds :
          /\ response.request.target \in {s, HumanId(s)}
          /\ storage_locations[s].current_occupancy = storage_locations[s].capacity

C6_SweepIdempotent ==
    (response.request.op = "auto_release" /\ response.http = 200)
    => /\ UpdateManyExpired(blood_units, now) = blood_units
       /\ UpdateManyExpired(components, now) = components
       /\ ModifiedCount(blood_units, now) = 0
       /\ ModifiedCount(components, now) = 0

C6_Witness ==
    /\ response.request.op = "auto_release"
    /\ response.units_released = 1
    /\ response.components_released = 1

\* C7: a sweep at time now resets to ready_to_use, with the reservation
\* fields cleared, exactly the items that are reserved with
\* reserved_until < now; every other item is unchanged, and total_released
\* is the number of items reset.
C7_SweepReleasesExactlyExpired ==
    [][(Handled("auto_release") /\ response'.http = 200)
       => LET hit == {k \in ItemKeys :
                        /\ ItemAt(k).status = "reserved"
                        /\ ItemAt(k).reserved_until # NoTime
                        /\ ItemAt(k).reserved_until < now}
          IN  /\ \A k \in hit :
                    /\ ItemAt(k)'.status = "ready_to_use"
                    /\ Cleared(ItemAt(k)')
              /\ \A k \in ItemKeys \ hit : ItemAt(k)' = ItemAt(k)
              /\ response'.total_released = Cardinality(hit)]_vars

C7_Witness ==
    /\ response.request.op = "auto_release"
    /\ response.total_released >= 1
    /\ \E k \in ItemKeys :
          ItemAt(k).status = "reserved" /\ ItemAt(k).reserved_until = now

C9_ReservePerItem ==
    [][Handled("reserve")
       => LET req == response'.request
              until == IF req.reserved_until = NoTime THEN now + 24
                       ELSE req.reserved_until
          IN  /\ \A i \in 1..Len(req.item_ids) :
                    Unknown(req.item_type, req.item_ids[i])
                    => /\ FailedWith(response', req.item_ids[i], <<"Not found">>)
                            = Occurrences(req, req.item_ids[i])
                       /\ ~InDone(response', req.item_ids[i])
              /\ \A k \in ItemKeys :
                    IF Positions(req, k) = {} THEN ItemAt(k)' = ItemAt(k)
                    ELSE LET id == req.item_ids[CHOOSE i \in Positions(req, k) : TRUE] IN
                         IF ItemAt(k).status # "ready_to_use"
                         THEN /\ FailedWith(response', id,
                                    <<"Cannot reserve - current status: ",
                                      ItemAt(k).status>>) = Occurrences(req, id)
                              /\ ~InDone(response', id)
                              /\ ItemAt(k)' = ItemAt(k)
                              /\ CustodyOf(chain_custody', k)
                                   = CustodyOf(chain_custody, k)
                         ELSE /\ ItemAt(k)'.status = "reserved"
                              /\ ItemAt(k)'.reserved_for = req.target
                              /\ ItemAt(k)'.reserved_by = req.user
                              /\ ItemAt(k)'.reserved_until = until
                              /\ response'.reserved_until = until
                              /\ Cardinality({j \in 1..Len(response'.done) :
                                                response'.done[j] = id}) = 1
                              /\ LET old == CustodyOf(chain_custody, k)
                                     new == CustodyOf(chain_custody', k)
                                 IN  /\ Len(new) = Len(old) + 1
                                     /\ SubSeq(new, 1, Len(old)) = old
                                     /\ new[Len(new)].stage = "Reservation"]_vars

C9_Witness ==
    /\ response.request.op = "reserve"
    /\ response.request.reserved_until # NoTime
    /\ Len(response.done) = 1
    /\ \E i \in 1..Len(response.failed) : response.failed[i].reason = <<"Not found">>

\* C10: release on an absent item fails with not-found and on an item that
\* is not reserved fails with an invalid-state error, changing nothing; on a
\* reserved item it sets ready_to_use, clears reserved_for, reserved_until,
\* reserved_request_id and reserved_by, and appends exactly one custody
\* event "Reservation Release".
C10_Release ==
    [][Handled("release")
       => LET req == response'.request
              id == req.item_ids[1]
          IN  IF Unknown(req.item_type, id)
              THEN response'.http = 404 /\ UNCHANGED storeVars
              ELSE \A k \in ItemKeys :
                     Resolves(req.item_type, id, k)
                     => IF ItemAt(k).status # "reserved"
                        THEN response'.http = 400 /\ UNCHANGED storeVars
                        ELSE /\ response'.http = 200
                             /\ ItemAt(k)'.status = "ready_to_use"
                             /\ Cleared(ItemAt(k)')
                             /\ \A j \in ItemKeys \ {k} : ItemAt(j)' = ItemAt(j)
                             /\ Len(chain_custody') = Len(chain_custody) + 1
                             /\ SubSeq(chain_custody', 1, Len(chain_custody))
                                  = chain_custody
                             /\ chain_custody'[Len(chain_custody')].unit_id = k
                             /\ chain_custody'[Len(chain_custody')].stage
                                  = "Reservation Release"]_vars

C10_Witness ==
    /\ response.request.op = "release"
    /\ response.http = 200
    /\ \E i \in 1..Len(chain_custody) :
          /\ chain_custody[i].stage = "Reservation"
          /\ chain_custody[i].unit_id = chain_custody[Len(chain_custody)].unit_id
          /\ chain_custody[Len(chain_custody)].stage = "Reservation Release"

\* C11: for each id a move reports in moved, the item's storage reference
\* becomes the destination and its status stays; the destination's counter
\* rises by one per reported id and a location's counter falls by one per
\* reported id whose item had that location recorded when it was moved (so
\* not at all for an item without a recorded storage id); one custody event
\* "Storage Transfer" is appended per reported id; every other item, custody
\* record and counter is unchanged.
MovedCount(resp, k) ==
    Cardinality({i \in 1..Len(resp.done) :
                    Resolves(resp.request.item_type, resp.done[i], k)})

C11_MoveFrameEffect ==
    [][(Handled("move") /\ response'.http = 200)
       => LET resp == response'
              d == CHOOSE s \in StorageIds : resp.request.target \in {s, HumanId(s)}
              M == {k \in ItemKeys : MovedCount(resp, k) > 0}
              In(s) == IF s = d THEN Len(resp.done) ELSE 0
              \* the first pass leaves the recorded location, every further
              \* pass of the same item leaves the destination
              Out(s) == Cardinality({k \in M : ItemAt(k).storage_location_id = s})
                        + (IF s = d THEN Len(resp.done) - Cardinality(M) ELSE 0)
          IN  /\ \A k \in M :
                    /\ ItemAt(k)'.storage_location_id = d
                    /\ ItemAt(k)'.storage_location = HumanId(d)
                    /\ ItemAt(k)'.status = ItemAt(k).status
                    /\ LET old == CustodyOf(chain_custody, k)
                           new == CustodyOf(chain_custody', k)
                       IN  /\ Len(new) = Len(old) + MovedCount(resp, k)
                           /\ SubSeq(new, 1, Len(old)) = old
                           /\ \A j \in (Len(old) + 1)..Len(new) :
                                 new[j].stage = "Storage Transfer"
              /\ \A k \in ItemKeys \ M :
                    /\ ItemAt(k)' = ItemAt(k)
                    /\ CustodyOf(chain_custody', k) = CustodyOf(chain_custody, k)
              /\ Len(chain_custody') = Len(chain_custody) + Len(resp.done)
              /\ \A s \in StorageIds :
                    /\ storage_locations'[s].current_occupancy
                         = storage_locations[s].current_occupancy + In(s) - Out(s)
                    /\ storage_locations'[s].capacity = storage_locations[s].capacity]_vars

\* a moved item that had another location recorded, next to the counters
\* of the location it left and the one it entered
C11_Witness ==
    /\ response.request.op = "move"
    /\ Len(response.done) = 1
    /\ Len(chain_custody) = 2
    /\ chain_custody[1].stage = "Storage Transfer"
    /\ chain_custody[2].stage = "Storage Transfer"
    /\ chain_custody[1].unit_id = chain_custody[2].unit_id
    /\ chain_custody[1].to_location # chain_custody[2].to_location
    /\ chain_custody[2].from_location = chain_custody[1].to_location

\* C12: the temperature check accepts a destination for a component type
\* exactly when the type has no declared requirement, or the destination's
\* storage-type name contains one of the type's acceptable substrings, or
\* the destination declares both temp_min and temp_max and that band
\* overlaps the required band; so a destination without a matching name and
\* without a declared band is rejected for a type that has a requirement.
\* Read off the per-item outcome of a move that passed its batch checks.
AcceptedAsStated(ctype, storage) ==
    \/ ~HasRequirement(ctype)
    \/ \E i \in 1..Len(Requirement(ctype).compatible_types) :
          IsSubstring(Requirement(ctype).compatible_types[i], storage.storage_type)
    \/ /\ storage.temp_min # NoTemp
       /\ storage.temp_max # NoTemp
       /\ storage.temp_min <= Requirement(ctype).max
       /\ storage.temp_max >= Requirement(ctype).min

C12_TemperatureCheck ==
    [][(Handled("move") /\ response'.http = 200)
       => LET req == response'.request
              d == CHOOSE s \in StorageIds : req.target \in {s, HumanId(s)}
          IN  \A k \in ItemKeys : \A i \in Positions(req, k) :
                 LET ctype == MoveComponentType(ItemAt(k), req.item_type) IN
                 /\ InDone(response', req.item_ids[i])
                      <=> AcceptedAsStated(ctype, storage_locations[d])
                 /\ FailedWith(response', req.item_ids[i],
                               <<"Temperature incompatible">>) > 0
                      <=> ~AcceptedAsStated(ctype, storage_locations[d])]_vars

\* C13: validate and move apply the same capacity and compatibility checks:
\* for the same state, ids, item type and destination, validate answers
\* valid: false exactly when move would reject the batch (destination not
\* found, or more ids than free slots) or would report at least one id as
\* "Temperature incompatible"; and validate changes no item, counter or
\* custody record.
MoveWouldReject(ids, target) ==
    \/ \A s \in StorageIds : target \notin {s, HumanId(s)}
    \/ \E s \in StorageIds :
          /\ target \in {s, HumanId(s)}
          /\ ExceedsCapacity(ids, storage_locations[s])

MoveWouldReportIncompatible(item_type, ids, target) ==
    \E s \in StorageIds :
       /\ target \in {s, HumanId(s)}
       /\ LET st == MoveLoop([coll |-> CollectionOf(item_type),
                              locs |-> storage_locations, log |-> chain_custody,
                              done |-> <<>>, failed |-> <<>>],
                             ids, item_type, s, storage_locations[s])
          IN  \E i \in 1..Len(st.failed) :
                 st.failed[i].reason = <<"Temperature incompatible">>

C13_ValidateAgreesWithMove ==
    [][Handled("validate")
       => LET req == response'.request
              ids == ParseIds(req.item_ids)
          IN  /\ response'.valid
                   <=> ~(\/ MoveWouldReject(ids, req.target)
                         \/ MoveWouldReportIncompatible(req.item_type, ids, req.target))
              /\ UNCHANGED storeVars]_vars

\* validate refusing a batch for an incompatible item while slots are free
C13_Witness ==
    /\ response.request.op = "validate"
    /\ ~response.valid
    /\ Len(response.incompatible_items) = 1
    /\ Len(response.request.item_ids) = 2

\* C14: the chain-of-custody log is append-only: after every step the log
\* is the log before the step followed by zero or more new records; no
\* record is changed, reordered or removed.
C14_CustodyAppendOnly ==
    [][/\ Len(chain_custody') >= Len(chain_custody)
       /\ SubSeq(chain_custody', 1, Len(chain_custody)) = chain_custody]_vars

\* a log that two different operations have written to
C14_Witness ==
    /\ Len(chain_custody) = 2
    /\ chain_custody[1].stage = "Storage Transfer"
    /\ chain_custody[2].stage = "Reservation"
    /\ response.request.op = "reserve"

\* C15: every movement, reservation and release is recorded: a step that
\* changes an item's storage location, changes its status to reserved, or
\* changes its status from reserved back to ready_to_use also appends a
\* custody event for that item.
C15_EveryChangeRecorded ==
    [][\A k \in ItemKeys :
         (\/ ItemAt(k)'.storage_location_id # ItemAt(k).storage_location_id
          \/ ItemAt(k).status # "reserved" /\ ItemAt(k)'.status = "reserved"
          \/ ItemAt(k).status = "reserved" /\ ItemAt(k)'.status = "ready_to_use")
         => Len(CustodyOf(chain_custody', k)) > Len(CustodyOf(chain_custody, k))]_vars

\* C16: whenever an item leaves status reserved (by release, by the expiry
\* sweep, or by shipping its issuance), the step that takes it out of
\* reserved leaves reserved_for, reserved_until, reserved_request_id and
\* reserved_by cleared.
C16_LeavingReservedClears ==
    [][\A k \in ItemKeys :
         (ItemAt(k).status = "reserved" /\ ItemAt(k)'.status # "reserved")
         => Cleared(ItemAt(k)')]_vars

\* C17: issued and discarded are terminal: once a unit or component has
\* status issued or discarded, no step changes its status.
C17_TerminalStatuses ==
    [][\A k \in ItemKeys :
         ItemAt(k).status \in {"issued", "discarded"}
         => ItemAt(k)'.status = ItemAt(k).status]_vars

\* C18: a request's status only follows pending -> approved -> fulfilled,
\* with rejected entered only from pending or approved: a fulfilled or
\* rejected request keeps its status, and a request becomes approved only
\* from pending.
C18_RequestStatusOrder ==
    [][\A r \in RequestIds :
         LET a == blood_requests[r].status
             b == blood_requests'[r].status
         IN  a # b
             => \/ a = "pending" /\ b \in {"approved", "rejected"}
                \/ a = "approved" /\ b \in {"fulfilled", "rejected"}]_vars

\* C19: an issuance's status only advances in the order picking -> packing
\* -> shipped -> delivered: no step moves an issuance to an earlier stage
\* or to a status outside these four.
IssuanceStage(status) ==
    CASE status = "picking" -> 1
      [] status = "packing" -> 2
      [] status = "shipped" -> 3
      [] status = "delivered" -> 4
      [] OTHER -> 0

C19_IssuanceStatusOrder ==
    [][\A i \in 1..Len(issuances) :
         /\ i <= Len(issuances')
         /\ IssuanceStage(issuances'[i].status) >= 1
         /\ IssuanceStage(issuances'[i].status)
              >= IssuanceStage(issuances[i].status)]_vars

\* C20: a move or reserve call that passes its batch-level checks reports
\* status "success" exactly when at least one id succeeded and "failed"
\* otherwise, and every id of the request appears across the success list
\* and the failed list exactly as often as it was submitted, so that
\* success count + failed count = number of ids submitted.
InList(list, id) == Cardinality({i \in 1..Len(list) : list[i] = id})
InFailed(resp, id) == Cardinality({i \in 1..Len(resp.failed) : resp.failed[i].id = id})

C20_BatchStatus ==
    [][((Handled("move") \/ Handled("reserve")) /\ response'.http = 200)
       => LET resp == response'
              req == resp.request
          IN  /\ resp.status = "success" <=> Len(resp.done) >= 1
              /\ resp.status = "failed" <=> Len(resp.done) = 0
              /\ \A i \in 1..Len(req.item_ids) :
                    InList(resp.done, req.item_ids[i]) + InFailed(resp, req.item_ids[i])
                      = Occurrences(req, req.item_ids[i])
              /\ Len(resp.done) + Len(resp.failed) = Len(req.item_ids)]_vars

\* a move that succeeds overall with one id moved and one id failed
C20_Witness ==
    /\ response.request.op = "move"
    /\ response.http = 200
    /\ response.status = "success"
    /\ Len(response.done) = 1
    /\ Len(response.failed) = 1

\* C21: the auto-release sweep is restricted to the roles admin and
\* inventory: a call by a user with any other role is answered with a
\* permission error and leaves every unit and component (and the rest of
\* the store) unchanged; a call by an admin is not refused.
C21_SweepRestricted ==
    [][Handled("auto_release")
       => IF Role(response'.request.user) \in {"admin", "inventory"}
          THEN response'.http = 200
          ELSE /\ response'.http = 403
               /\ response'.total_released = 0
               /\ UNCHANGED storeVars]_vars

\* a refused sweep while a hold that has run out is waiting
C21_Witness ==
    /\ response.request.op = "auto_release"
    /\ response.http = 403
    /\ \E k \in ItemKeys :
          /\ ItemAt(k).status = "reserved"
          /\ ItemAt(k).reserved_until < now

\* C22: approve_request and reject_request answer 404 if and only if the
\* given id resolves to no blood request; for an existing request, also
\* one already approved or rejected with the same values, the answer is
\* not 404.
C22_NotFoundIffAbsent ==
    response.request.op \in {"approve", "reject"}
    => (response.http = 404
        <=> \A r \in RequestIds : response.request.target \notin {r, HumanId(r)})

\* C23: Quarantine Resolve performs only quarantine -> ready_to_use (for
\* disposition release) and quarantine -> discarded (for disposition
\* discard): it changes no status of an item that is not in quarantine,
\* and sets discarded for no other disposition than discard.
C23_ResolveTransitions ==
    [][Handled("resolve")
       => \A k \in ItemKeys :
             ItemAt(k)'.status # ItemAt(k).status
             => /\ ItemAt(k).status = "quarantine"
                /\ \E q \in QuarantineIds :
                      /\ quarantine[q].unit_component_id = k
                      /\ response'.request.target = q
                      /\ \/ /\ quarantine'[q].disposition = "release"
                            /\ ItemAt(k)'.status = "ready_to_use"
                         \/ /\ quarantine'[q].disposition = "discard"
                            /\ ItemAt(k)'.status = "discarded"]_vars

\* C24: a unit or component enters status reserved only from status
\* ready_to_use: no step (reserve or issuance creation) sets reserved on an
\* item that is in any other status.
C24_ReservedOnlyFromReady ==
    [][\A k \in ItemKeys :
         (ItemAt(k).status # "reserved" /\ ItemAt(k)'.status = "reserved")
         => ItemAt(k).status = "ready_to_use"]_vars

\* C25: a component enters status issued only from status reserved:
\* shipping an issuance sets issued only on components that are reserved
\* at that moment.
C25_IssuedOnlyFromReserved ==
    [][\A k \in ComponentIds :
         (components[k].status # "issued" /\ components'[k].status = "issued")
         => components[k].status = "reserved"]_vars

\* C26: reservation expiry takes effect only through the sweep or an
\* explicit release: an item whose reserved_until is in the past stays
\* reserved with its reservation fields across every step that is not a
\* release or a sweep (reads and reserve calls among them), the reserved
\* list shows it as reserved and expired, and a reserve call on it fails
\* with the status-mismatch reason.
Lapsed(k) ==
    /\ ItemAt(k).status = "reserved"
    /\ ItemAt(k).reserved_until # NoTime
    /\ ItemAt(k).reserved_until < now

C26_ExpiryOnlyBySweepOrRelease ==
    [][\A k \in ItemKeys :
         Lapsed(k)
         => /\ ~(Handled("release") \/ Handled("auto_release"))
               => /\ ItemAt(k)'.status = "reserved"
                  /\ ItemAt(k)'.reserved_for = ItemAt(k).reserved_for
                  /\ ItemAt(k)'.reserved_until = ItemAt(k).reserved_until
                  /\ ItemAt(k)'.reserved_request_id = ItemAt(k).reserved_request_id
                  /\ ItemAt(k)'.reserved_by = ItemAt(k).reserved_by
            /\ Handled("get_reserved")
               => \E i \in 1..Len(response'.items) :
                     /\ response'.items[i].item_id = HumanId(k)
                     /\ response'.items[i].is_expired
            /\ Handled("reserve")
               => \A i \in Positions(response'.request, k) :
                     LET id == response'.request.item_ids[i] IN
                     /\ FailedWith(response', id,
                                   <<"Cannot reserve - current status: ", "reserved">>)
                          = Occurrences(response'.request, id)
                     /\ ~InDone(response', id)]_vars

\* a reserve call refused on an item whose hold has run out
C26_Witness ==
    /\ response.request.op = "reserve"
    /\ \E k \in ItemKeys :
          /\ ItemAt(k).status = "reserved"
          /\ ItemAt(k).reserved_until # NoTime
          /\ ItemAt(k).reserved_until < now
          /\ \E i \in 1..Len(response.failed) :
                /\ Resolves(response.request.item_type, response.failed[i].id, k)
                /\ response.failed[i].reason
                     = <<"Cannot reserve - current status: ", "reserved">>

\* C27: two move calls to the same destination that run concurrently never
\* together push its current_occupancy above its capacity.
C27_ConcurrentMovesWithinCapacity ==
    \A p \in Calls :
       calls[p].request.op = "move" /\ calls[p].dkey # None
       => storage_locations[calls[p].dkey].current_occupancy
            <= storage_locations[calls[p].dkey].capacity

\* C29: an id that move reports in failed is left untouched by that call,
\* whatever the cause: with no other call in flight, at the moment the id is
\* added to failed the items, the occupancy counters and the custody log are
\* as the pass of the loop found them.
C29_FailedIdUntouched ==
    [][\A p \in Calls :
         (/\ calls[p].request.op = "move"
          /\ Len(calls'[p].failed) = Len(calls[p].failed) + 1
          /\ \A q \in Calls \ {p} : calls[q].pc = "idle")
         => /\ blood_units' = calls'[p].seen.units
            /\ components' = calls'[p].seen.comps
            /\ storage_locations' = calls'[p].seen.locs
            /\ chain_custody' = calls'[p].seen.log]_vars

\* C28: for each item, its Storage Transfer custody events in insertion
\* order form an unbroken chain after any sequence of move calls: each
\* event's from_location is the to_location of the item's previous Storage
\* Transfer event, and the last event's to_location is the item's current
\* storage_location.
Transfers(k) ==
    SelectSeq(CustodyOf(chain_custody, k), LAMBDA r : r.stage = "Storage Transfer")

C30_DerivedEqualsCounter ==
    \A sid \in StorageIds :
       DerivedOccupancy(sid) = storage_locations[sid].current_occupancy
====
